---- MODULE Spec2Model ----
(***************************************************************************)
(* A model of bodil/disposable (src/src/index.ts): the adapter             *)
(* toDisposable(), the aggregate DisposableContext, the AutoDisposable     *)
(* owner mixin, and the platform adapters eventListener(), timeout(),      *)
(* animationFrame() and DisposableAbortController.                         *)
(*                                                                         *)
(* User code (the caller at top level, and the body of a cleanup that the  *)
(* library is running) is the environment: whenever it is in control it    *)
(* may call any operation of the library, return, or throw.  The library's *)
(* code between two such points is one step.  Calls in progress are kept   *)
(* on an explicit call stack, so that reentrant calls made from inside a   *)
(* running cleanup are ordinary behaviours of the model.                   *)
(***************************************************************************)
EXTENDS Naturals, Sequences, FiniteSets

\* Number of wrapped entries one context is followed through.
MaxEntries == 2
\* Number of release calls one standalone Disposable is followed through.
MaxReleases == 3

VARIABLES
    sd,           \* the object returned by the last successful toDisposable()
    sdLast,       \* the last step of the adapter and how it ended
    kind,         \* the object under observation: a bare DisposableContext, or an
                  \* AutoDisposable owner (whose context is private to it)
    entries,      \* every wrappedDisposable created by use(), in creation order
    disposables,  \* this.#disposables: the entries (by index) in the Set
    context,      \* AutoDisposable's #_context is not undefined
    stack,        \* the calls of the library that are in progress
    old,          \* the entries that existed when dispose() last returned
    last,         \* the last step and how it ended
    target,       \* the listeners the EventTarget holds
    el,           \* the last eventListener() call and the Disposable it returned
    timer,        \* the Disposable of one timeout() or animationFrame() call
    dac           \* one DisposableAbortController and the signals it has exposed

-----------------------------------------------------------------------------
(* Values handed to toDisposable() and use().  A value is named by its     *)
(* runtime shape, which is all that extractDisposeFn probes.               *)

Values ==
    { "function",            \* () => void
      "functionWithDispose", \* a callable that also carries a [Symbol.dispose] method
      "disposable",          \* { [Symbol.dispose]() {} }
      "unsubscribable",      \* { unsubscribe() {} }
      "both",                \* { [Symbol.dispose]() {}, unsubscribe() {} }
      "disposeNotCallable",  \* { [Symbol.dispose]: 1, unsubscribe() {} }
      "emptyObject",         \* {}
      "number",              \* 42
      "undefined",
      "null" }

\* The values use() is followed with: one of each way it can end.
UsedValues == {"function", "both", "emptyObject", "undefined", "null"}

\* JavaScript's typeof operator
typeof(v) ==
    CASE v \in {"function", "functionWithDispose"} -> "function"
      [] v \in {"disposable", "unsubscribable", "both", "disposeNotCallable",
                "emptyObject", "null"} -> "object"
      [] v = "number" -> "number"
      [] v = "undefined" -> "undefined"

\* typeof v[Symbol.dispose]; reading a property of null raises a TypeError
typeofSymbolDispose(v) ==
    CASE v = "null" -> "TypeError"
      [] v \in {"functionWithDispose", "disposable", "both"} -> "function"
      [] v = "disposeNotCallable" -> "number"
      [] OTHER -> "undefined"

\* typeof v.unsubscribe
typeofUnsubscribe(v) ==
    CASE v = "null" -> "TypeError"
      [] v \in {"unsubscribable", "both", "disposeNotCallable"} -> "function"
      [] OTHER -> "undefined"

\* What a call of the extracted function invokes: the value itself, its
\* [Symbol.dispose] method bound to it, or its unsubscribe method bound to it.
Methods == {"call", "Symbol.dispose", "unsubscribe"}

ConvertError == "toDisposable(): don't know how to convert given value to disposable"

extractDisposeFn_unsubscribeFirst(v) ==
    IF typeof(v) = "function" THEN [ok |-> TRUE, fn |-> "call"]
    ELSE IF typeof(v) = "object" /\ typeofUnsubscribe(v) = "TypeError"
        THEN [ok |-> FALSE, fn |-> "TypeError"]
    ELSE IF typeof(v) = "object" /\ typeofUnsubscribe(v) = "function"
        THEN [ok |-> TRUE, fn |-> "unsubscribe"]
    ELSE IF typeof(v) = "object" /\ typeofSymbolDispose(v) = "function"
        THEN [ok |-> TRUE, fn |-> "Symbol.dispose"]
    ELSE [ok |-> FALSE, fn |-> ConvertError]

\* extractDisposeFn: the function to call, or the error raised
extractDisposeFn(v) ==
    IF typeof(v) = "function" THEN [ok |-> TRUE, fn |-> "call"]
    ELSE IF typeof(v) = "object" /\ typeofSymbolDispose(v) = "TypeError"
        THEN [ok |-> FALSE, fn |-> "TypeError"]
    ELSE IF typeof(v) = "object" /\ typeofSymbolDispose(v) = "function"
        THEN [ok |-> TRUE, fn |-> "Symbol.dispose"]
    ELSE IF typeof(v) = "object" /\ typeofUnsubscribe(v) = "function"
        THEN [ok |-> TRUE, fn |-> "unsubscribe"]
    ELSE [ok |-> FALSE, fn |-> ConvertError]

-----------------------------------------------------------------------------
(* The standalone adapter: one object returned by toDisposable().          *)

sdVars == <<sd, sdLast>>
ctxVars == <<kind, entries, disposables, context, stack, old, last>>
hostVars == <<target, el, timer, dac>>
vars == <<sd, sdLast, kind, entries, disposables, context, stack, old, last,
          target, el, timer, dac>>

NoCalls == [m \in Methods |-> 0]

\* sd.made      an object has been returned
\* sd.value     the value it was made from
\* sd.disposeFn the closure constant disposeFn
\* sd.disposed  the closure variable disposed
\* sd.invoked   how often each method of sd.value has been invoked
\* sd.releases  how often [Symbol.dispose]() of the object has been called
\* sd.running   the invocations of disposeFn() that have not returned yet
\* sd.threw     an invocation of disposeFn() has thrown
\* sd.reentered [Symbol.dispose]() has been called while disposeFn() was running
NoSd ==
    [made |-> FALSE, value |-> "undefined", disposeFn |-> "call", disposed |-> FALSE,
     invoked |-> NoCalls, releases |-> 0, running |-> 0, threw |-> FALSE,
     reentered |-> FALSE]

sdInit ==
    /\ sd = NoSd
    /\ sdLast = [op |-> "init", value |-> "undefined", out |-> "returned"]

\* toDisposable(value), called by user code
toDisposable(v) ==
    LET r == extractDisposeFn(v) IN
    /\ UNCHANGED ctxVars
    /\ UNCHANGED hostVars
    /\ sdLast' = [op |-> "toDisposable", value |-> v,
                  out |-> IF r.ok THEN "returned" ELSE r.fn]
    /\ sd' = IF r.ok
             THEN [made |-> TRUE, value |-> v, disposeFn |-> r.fn, disposed |-> FALSE,
                   invoked |-> NoCalls, releases |-> 0, running |-> 0,
                   threw |-> FALSE, reentered |-> FALSE]
             ELSE sd

sdDispose_neverMarked ==
    /\ UNCHANGED ctxVars
    /\ UNCHANGED hostVars
    /\ sd.made
    /\ sd.releases < MaxReleases
    /\ sd' = [sd EXCEPT !.releases = @ + 1,
                        !.invoked[sd.disposeFn] = @ + 1,
                        !.running = @ + 1,
                        !.reentered = @ \/ sd.running > 0]
    /\ sdLast' = [op |-> "dispose", value |-> sd.value, out |-> "invoked"]

\* [Symbol.dispose]() of the returned object, called by user code: at top
\* level or from inside the running cleanup
sdDispose ==
    /\ UNCHANGED ctxVars
    /\ UNCHANGED hostVars
    /\ sd.made
    /\ sd.releases < MaxReleases
    /\ IF ~sd.disposed
       THEN /\ sd' = [sd EXCEPT !.releases = @ + 1,
                                !.disposed = TRUE,
                                !.invoked[sd.disposeFn] = @ + 1,
                                !.running = @ + 1,
                                !.reentered = @ \/ sd.running > 0]
            /\ sdLast' = [op |-> "dispose", value |-> sd.value, out |-> "invoked"]
       ELSE /\ sd' = [sd EXCEPT !.releases = @ + 1,
                                !.reentered = @ \/ sd.running > 0]
            /\ sdLast' = [op |-> "dispose", value |-> sd.value, out |-> "returned"]

\* the underlying cleanup returns
sdCleanupReturn ==
    /\ UNCHANGED ctxVars
    /\ UNCHANGED hostVars
    /\ sd.running > 0
    /\ sd' = [sd EXCEPT !.running = @ - 1]
    /\ sdLast' = [op |-> "cleanup", value |-> sd.value, out |-> "returned"]

\* the underlying cleanup throws; nothing in the adapter catches it
sdCleanupThrow ==
    /\ UNCHANGED ctxVars
    /\ UNCHANGED hostVars
    /\ sd.running > 0
    /\ sd' = [sd EXCEPT !.running = @ - 1, !.threw = TRUE]
    /\ sdLast' = [op |-> "cleanup", value |-> sd.value, out |-> "CleanupError"]

-----------------------------------------------------------------------------
(* DisposableContext and AutoDisposable.                                   *)

\* entries[e].value        the value given to use()
\* entries[e].dispose      the closure constant dispose: what extractDisposeFn gave
\* entries[e].disposables  the closure variable disposables is not undefined
\* entries[e].invoked      how often dispose() has been called for this entry
\* entries[e].by           the caller whose release invoked dispose()
\* entries[e].during       use() ran while a dispose() pass was in progress

Entries == 1 .. Len(entries)

\* A frame of the call stack.
\*   "cleanup":  wrappedDisposable[Symbol.dispose] of entry e is inside dispose(),
\*               the user's cleanup is running
\*   "dispose":  DisposableContext[Symbol.dispose] is inside its for-of loop; pos
\*               is the entry the Set iterator yielded last, start the Set and
\*               len the number of entries when the call began
\*   "teardown": AutoDisposable[Symbol.dispose] is inside this.#_context.dispose()
CleanupFrame(e) == [k |-> "cleanup", e |-> e, pos |-> 0, start |-> {}, len |-> 0]
DisposeFrame == [k |-> "dispose", e |-> 0, pos |-> 0, start |-> disposables,
                 len |-> Len(entries)]
TeardownFrame == [k |-> "teardown", e |-> 0, pos |-> 0, start |-> {}, len |-> 0]

Top == stack[Len(stack)]
Pop == SubSeq(stack, 1, Len(stack) - 1)

\* user code is in control: the caller at top level, or a running cleanup
InUser == IF stack = <<>> THEN TRUE ELSE Top.k = "cleanup"

\* a dispose() pass is in progress somewhere on the stack
InPass == \E i \in 1 .. Len(stack) : stack[i].k = "dispose"

Max(S) == CHOOSE x \in S : \A y \in S : y <= x
Min(S) == CHOOSE x \in S : \A y \in S : x <= y

\* An exception leaving the frame on top unwinds the library's frames below it
\* up to the nearest user code: the innermost running cleanup, or the top level.
Unwind ==
    LET user == {i \in 1 .. Len(stack) - 1 : stack[i].k = "cleanup"} IN
    SubSeq(stack, 1, IF user = {} THEN 0 ELSE Max(user))

\* The record of a step: the operation, the entry and the value it was about,
\* how it ended and what it returned; for dispose(), the Set and the number of
\* entries when it was called, and whether it directly follows a dispose()
\* call that had ended; for a teardown, whether it is the return of a call that
\* found the context undefined (user code is in control when it is recorded).
Step(op, e, v, out, ret, start, len) ==
    [op |-> op, e |-> e, value |-> v, out |-> out, ret |-> ret, start |-> start,
     len |-> len,
     again |-> \/ op = "dispose" /\ out \in {"returned", "called"} /\ start = disposables
                  /\ last.op = "dispose" /\ last.out # "called"
               \/ op = "teardown" /\ InUser]

ctxInit(k) ==
    /\ kind = k
    /\ entries = <<>>
    /\ disposables = {}
    /\ context = TRUE
    /\ stack = <<>>
    /\ old = {}
    /\ last = Step("init", 0, "undefined", "returned", "undefined", {}, 0)

UseAssertion == "AutoDisposable: use() called after dispose"
DisposeAssertion ==
    "DisposableContext: disposables remaining in context after dispose, this isn't supposed to happen"

contextUse_terminal(v) ==
    LET r == extractDisposeFn(v) IN
    IF v \in {"undefined", "null"}
    THEN /\ last' = Step("use", 0, v, "returned", v, {}, 0)
         /\ UNCHANGED <<entries, disposables>>
    ELSE IF ~r.ok
    THEN /\ last' = Step("use", 0, v, r.fn, "none", {}, 0)
         /\ UNCHANGED <<entries, disposables>>
    ELSE IF old # {}
    THEN /\ last' = Step("use", 0, v, "returned", "undefined", {}, 0)
         /\ UNCHANGED <<entries, disposables>>
    ELSE /\ Len(entries) < MaxEntries
         /\ entries' = Append(entries,
                [value |-> v, dispose |-> r.fn, disposables |-> TRUE, invoked |-> 0,
                 by |-> "none", during |-> InPass])
         /\ disposables' = disposables \cup {Len(entries) + 1}
         /\ last' = Step("use", Len(entries) + 1, v, "returned", "wrappedDisposable",
                         {}, 0)

contextUse_noPassthrough(v) ==
    LET r == extractDisposeFn(v) IN
    IF ~r.ok
    THEN /\ last' = Step("use", 0, v, r.fn, "none", {}, 0)
         /\ UNCHANGED <<entries, disposables>>
    ELSE /\ Len(entries) < MaxEntries
         /\ entries' = Append(entries,
                [value |-> v, dispose |-> r.fn, disposables |-> TRUE, invoked |-> 0,
                 by |-> "none", during |-> InPass])
         /\ disposables' = disposables \cup {Len(entries) + 1}
         /\ last' = Step("use", Len(entries) + 1, v, "returned", "wrappedDisposable",
                         {}, 0)

contextUse_addsFirst(v) ==
    LET r == extractDisposeFn(v) IN
    IF v \in {"undefined", "null"}
    THEN /\ last' = Step("use", 0, v, "returned", v, {}, 0)
         /\ UNCHANGED <<entries, disposables>>
    ELSE /\ Len(entries) < MaxEntries
         /\ entries' = Append(entries,
                [value |-> v, dispose |-> r.fn, disposables |-> TRUE, invoked |-> 0,
                 by |-> "none", during |-> InPass])
         /\ disposables' = disposables \cup {Len(entries) + 1}
         /\ last' = IF r.ok
                    THEN Step("use", Len(entries) + 1, v, "returned", "wrappedDisposable",
                              {}, 0)
                    ELSE Step("use", 0, v, r.fn, "none", {}, 0)

contextUse_perSource(v) ==
    LET r == extractDisposeFn(v)
        same == {e \in disposables : entries[e].value = v}
    IN
    IF v \in {"undefined", "null"}
    THEN /\ last' = Step("use", 0, v, "returned", v, {}, 0)
         /\ UNCHANGED <<entries, disposables>>
    ELSE IF ~r.ok
    THEN /\ last' = Step("use", 0, v, r.fn, "none", {}, 0)
         /\ UNCHANGED <<entries, disposables>>
    ELSE IF same # {}
    THEN /\ last' = Step("use", Min(same), v, "returned", "wrappedDisposable", {}, 0)
         /\ UNCHANGED <<entries, disposables>>
    ELSE /\ Len(entries) < MaxEntries
         /\ entries' = Append(entries,
                [value |-> v, dispose |-> r.fn, disposables |-> TRUE, invoked |-> 0,
                 by |-> "none", during |-> InPass])
         /\ disposables' = disposables \cup {Len(entries) + 1}
         /\ last' = Step("use", Len(entries) + 1, v, "returned", "wrappedDisposable",
                         {}, 0)

\* DisposableContext.use(disposifiable)
contextUse(v) ==
    LET r == extractDisposeFn(v) IN
    IF v \in {"undefined", "null"}
    THEN /\ last' = Step("use", 0, v, "returned", v, {}, 0)
         /\ UNCHANGED <<entries, disposables>>
    ELSE IF ~r.ok
    THEN /\ last' = Step("use", 0, v, r.fn, "none", {}, 0)
         /\ UNCHANGED <<entries, disposables>>
    ELSE /\ Len(entries) < MaxEntries
         /\ entries' = Append(entries,
                [value |-> v, dispose |-> r.fn, disposables |-> TRUE, invoked |-> 0,
                 by |-> "none", during |-> InPass])
         /\ disposables' = disposables \cup {Len(entries) + 1}
         /\ last' = Step("use", Len(entries) + 1, v, "returned", "wrappedDisposable",
                         {}, 0)

wrappedDisposable_skipsCleanup(e, who, stk) ==
    /\ disposables' = disposables \ {e}
    /\ entries' = [entries EXCEPT ![e].disposables = FALSE]
    /\ stack' = stk
    /\ last' = Step(who, e, entries[e].value, "returned", "none", {}, 0)

wrappedDisposable_unguarded(e, who, stk) ==
    /\ disposables' = disposables \ {e}
    /\ entries' = [entries EXCEPT ![e].invoked = @ + 1, ![e].by = who]
    /\ stack' = Append(stk, CleanupFrame(e))
    /\ last' = Step(who, e, entries[e].value, "invoked", "none", {}, 0)

wrappedDisposable_keepsEntry(e, who, stk) ==
    IF entries[e].disposables /\ e \in disposables
    THEN /\ disposables' = disposables
         /\ entries' = [entries EXCEPT ![e].invoked = @ + 1, ![e].by = who]
         /\ stack' = Append(stk, CleanupFrame(e))
         /\ last' = Step(who, e, entries[e].value, "invoked", "none", {}, 0)
    ELSE /\ entries' = [entries EXCEPT ![e].disposables = FALSE]
         /\ stack' = stk
         /\ last' = Step(who, e, entries[e].value, "returned", "none", {}, 0)
         /\ UNCHANGED disposables

\* wrappedDisposable[Symbol.dispose]() of entry e, called by who ("release": user
\* code through the handle, "dispose": the for-of loop) with the stack stk
wrappedDisposable(e, who, stk) ==
    IF entries[e].disposables /\ e \in disposables
    THEN /\ disposables' = disposables \ {e}
         /\ entries' = [entries EXCEPT ![e].invoked = @ + 1, ![e].by = who]
         /\ stack' = Append(stk, CleanupFrame(e))
         /\ last' = Step(who, e, entries[e].value, "invoked", "none", {}, 0)
    ELSE /\ entries' = [entries EXCEPT ![e].disposables = FALSE]
         /\ stack' = stk
         /\ last' = Step(who, e, entries[e].value, "returned", "none", {}, 0)
         /\ UNCHANGED disposables

\* DisposableContext[Symbol.dispose]() with the stack stk, as far as the loop
contextDispose(stk) ==
    IF disposables = {}
    THEN /\ stack' = stk
         /\ old' = Entries
         /\ last' = Step("dispose", 0, "undefined", "returned", "none", {}, Len(entries))
    ELSE /\ stack' = Append(stk, DisposeFrame)
         /\ old' = old
         /\ last' = Step("dispose", 0, "undefined", "called", "none", disposables,
                         Len(entries))

\* user code calls use() of a DisposableContext
use(v) ==
    /\ kind = "DisposableContext"
    /\ InUser
    /\ contextUse(v)
    /\ UNCHANGED sdVars
    /\ UNCHANGED hostVars
    /\ UNCHANGED <<kind, context, stack, old>>

\* user code calls dispose() of a DisposableContext
dispose ==
    /\ kind = "DisposableContext"
    /\ InUser
    /\ contextDispose(stack)
    /\ UNCHANGED sdVars
    /\ UNCHANGED hostVars
    /\ UNCHANGED <<kind, entries, disposables, context>>

\* user code releases the handle that use() returned for entry e
release(e) ==
    /\ InUser
    /\ wrappedDisposable(e, "release", stack)
    /\ UNCHANGED sdVars
    /\ UNCHANGED hostVars
    /\ UNCHANGED <<kind, context, old>>

Ahead_snapshot == {e \in disposables \cap Top.start : e > Top.pos}

\* the entries the Set iterator of the pass on top has still to yield: a Set
\* iterator also yields the values added while the iteration is under way
Ahead == {e \in disposables : e > Top.pos}

\* for (const disposable of this.#disposables) disposable[Symbol.dispose]()
disposeNext ==
    /\ stack # <<>>
    /\ Top.k = "dispose"
    /\ Ahead # {}
    /\ wrappedDisposable(Min(Ahead), "visit", [stack EXCEPT ![Len(stack)].pos = Min(Ahead)])
    /\ UNCHANGED sdVars
    /\ UNCHANGED hostVars
    /\ UNCHANGED <<kind, context, old>>

\* the loop is over: the assertion, and the return of dispose()
disposeEnd ==
    /\ stack # <<>>
    /\ Top.k = "dispose"
    /\ Ahead = {}
    /\ IF disposables = {}
       THEN /\ stack' = Pop
            /\ old' = Entries
            /\ last' = Step("dispose", 0, "undefined", "returned", "none", Top.start,
                            Top.len)
       ELSE /\ stack' = Unwind
            /\ old' = old
            /\ last' = Step("dispose", 0, "undefined", DisposeAssertion, "none",
                            Top.start, Top.len)
    /\ UNCHANGED sdVars
    /\ UNCHANGED hostVars
    /\ UNCHANGED <<kind, entries, disposables, context>>

\* the user's cleanup returns: disposables = undefined, and
\* wrappedDisposable[Symbol.dispose] returns to its caller
cleanupReturn ==
    /\ stack # <<>>
    /\ Top.k = "cleanup"
    /\ entries' = [entries EXCEPT ![Top.e].disposables = FALSE]
    /\ stack' = Pop
    /\ last' = Step("cleanup", Top.e, entries[Top.e].value, "returned", "none", {}, 0)
    /\ UNCHANGED sdVars
    /\ UNCHANGED hostVars
    /\ UNCHANGED <<kind, disposables, context, old>>

cleanupThrow_caught ==
    /\ stack # <<>>
    /\ Top.k = "cleanup"
    /\ stack' = Pop
    /\ last' = Step("cleanup", Top.e, entries[Top.e].value, "CleanupError", "none", {}, 0)
    /\ UNCHANGED sdVars
    /\ UNCHANGED hostVars
    /\ UNCHANGED <<kind, entries, disposables, context, old>>

\* the user's cleanup throws: nothing in the library catches
cleanupThrow ==
    /\ stack # <<>>
    /\ Top.k = "cleanup"
    /\ stack' = Unwind
    /\ last' = Step("cleanup", Top.e, entries[Top.e].value, "CleanupError", "none", {}, 0)
    /\ UNCHANGED sdVars
    /\ UNCHANGED hostVars
    /\ UNCHANGED <<kind, entries, disposables, context, old>>

ownerUse_optionalChaining(v) ==
    /\ kind = "AutoDisposable"
    /\ InUser
    /\ IF context
       THEN contextUse(v)
       ELSE /\ last' = Step("use", 0, v, "returned", "undefined", {}, 0)
            /\ UNCHANGED <<entries, disposables>>
    /\ UNCHANGED sdVars
    /\ UNCHANGED hostVars
    /\ UNCHANGED <<kind, context, stack, old>>

\* user code calls use() of an AutoDisposable
ownerUse(v) ==
    /\ kind = "AutoDisposable"
    /\ InUser
    /\ IF context
       THEN contextUse(v)
       ELSE /\ last' = Step("use", 0, v, UseAssertion, "none", {}, 0)
            /\ UNCHANGED <<entries, disposables>>
    /\ UNCHANGED sdVars
    /\ UNCHANGED hostVars
    /\ UNCHANGED <<kind, context, stack, old>>

teardown_clearsOnly ==
    /\ kind = "AutoDisposable"
    /\ InUser
    /\ context' = FALSE
    /\ last' = Step("teardown", 0, "undefined", "returned", "none", {}, 0)
    /\ UNCHANGED sdVars
    /\ UNCHANGED hostVars
    /\ UNCHANGED <<kind, entries, disposables, stack, old>>

\* user code calls [Symbol.dispose]() of an AutoDisposable
teardown ==
    /\ kind = "AutoDisposable"
    /\ InUser
    /\ IF context
       THEN /\ contextDispose(Append(stack, TeardownFrame))
            /\ UNCHANGED context
       ELSE /\ last' = Step("teardown", 0, "undefined", "returned", "none", {}, 0)
            /\ UNCHANGED <<context, stack, old>>
    /\ UNCHANGED sdVars
    /\ UNCHANGED hostVars
    /\ UNCHANGED <<kind, entries, disposables>>

\* this.#_context.dispose() has returned: this.#_context = undefined
teardownEnd ==
    /\ stack # <<>>
    /\ Top.k = "teardown"
    /\ context' = FALSE
    /\ stack' = Pop
    /\ last' = Step("teardown", 0, "undefined", "returned", "none", {}, 0)
    /\ UNCHANGED sdVars
    /\ UNCHANGED hostVars
    /\ UNCHANGED <<kind, entries, disposables, old>>

\* user code calls use() of a DisposableContext that has no entry yet
firstUse(v) ==
    /\ entries = <<>>
    /\ contextUse(v)
    /\ UNCHANGED sdVars
    /\ UNCHANGED hostVars
    /\ UNCHANGED <<kind, context, stack, old>>

-----------------------------------------------------------------------------
(* The platform adapters: eventListener(), timeout(), animationFrame() and  *)
(* DisposableAbortController.  The host objects they call (EventTarget,     *)
(* timers, AbortController) do what the DOM and HTML standards say.         *)

\* Number of AbortControllers one DisposableAbortController is followed through.
MaxSignals == 4

Types == {"click", "keydown"}
Callbacks == {"f", "g"}

\* The options argument of addEventListener and removeEventListener: absent, a
\* boolean (the capture flag) or a dictionary.
Options ==
    {"undefined", "false", "true", "{capture: false}", "{capture: true}", "{once: true}"}

\* the capture flag the host reads from an options argument
capture(o) == o \in {"true", "{capture: true}"}

\* An EventTarget tells its listeners apart by type, callback and capture flag.
Listener(t, c, o) == [type |-> t, callback |-> c, capture |-> capture(o)]

\* target.addEventListener(type, callback, options): a listener the target
\* already holds is not added a second time
addEventListener(t, c, o) == target \cup {Listener(t, c, o)}

\* target.removeEventListener(type, callback, options)
removeEventListener(t, c, o) == target \ {Listener(t, c, o)}

\* el.made      eventListener() has returned a Disposable
\* el.type, el.callback, el.options   the arguments of that call
\* el.disposed  the closure variable disposed of the Disposable
\* el.releases  how often its [Symbol.dispose]() has been called
NoEl ==
    [made |-> FALSE, type |-> "click", callback |-> "f", options |-> "undefined",
     disposed |-> FALSE, releases |-> 0]

\* eventListener(target, type, callback, options)
eventListener(t, c, o) ==
    /\ target' = addEventListener(t, c, o)
    /\ el' = [made |-> TRUE, type |-> t, callback |-> c, options |-> o,
              disposed |-> FALSE, releases |-> 0]
    /\ UNCHANGED <<timer, dac>>
    /\ UNCHANGED sdVars
    /\ UNCHANGED ctxVars

\* [Symbol.dispose]() of the Disposable eventListener() returned: the first call
\* runs () => target.removeEventListener(type, callback), which passes no options
listenerDispose ==
    /\ el.made
    /\ el.releases < MaxReleases
    /\ IF ~el.disposed
       THEN /\ el' = [el EXCEPT !.disposed = TRUE, !.releases = @ + 1]
            /\ target' = removeEventListener(el.type, el.callback, "undefined")
       ELSE /\ el' = [el EXCEPT !.releases = @ + 1]
            /\ target' = target
    /\ UNCHANGED <<timer, dac>>
    /\ UNCHANGED sdVars
    /\ UNCHANGED ctxVars

\* timer.made     timeout() or animationFrame() has returned a Disposable
\* timer.api      which of the two
\* timer.id       the closure variable id is not null
\* timer.pending  the host still holds the callback (setTimeout /
\*                requestAnimationFrame, neither fired nor cancelled)
\* timer.disposed the closure variable disposed of the Disposable
\* timer.fired    the host has called the wrapper's callback
\* timer.firing   the user callback fn is running
\* timer.ran      how often fn has been called
\* timer.cancels  how often clearTimeout / cancelAnimationFrame has been called
\* timer.releases how often user code has called [Symbol.dispose]() of the Disposable
\* timer.entry    an entry made from the Disposable was in a context's Set when the
\*                host called the wrapper's callback
NoTimer ==
    [made |-> FALSE, api |-> "timeout", id |-> FALSE, pending |-> FALSE,
     disposed |-> FALSE, fired |-> FALSE, firing |-> FALSE, ran |-> 0, cancels |-> 0,
     releases |-> 0, entry |-> FALSE]

\* timeout(fn, ms) or animationFrame(fn): the host callback is scheduled and its
\* id kept, and the Disposable is made
oneShot(api) ==
    /\ ~timer.made
    /\ stack = <<>>
    /\ timer' = [NoTimer EXCEPT !.made = TRUE, !.api = api, !.id = TRUE, !.pending = TRUE]
    /\ UNCHANGED <<target, el, dac>>
    /\ UNCHANGED sdVars
    /\ UNCHANGED ctxVars

timeout == oneShot("timeout")

animationFrame == oneShot("animationFrame")

\* the function the one-shot hands to toDisposable():
\* if (id !== null) clearTimeout(id) / cancelAnimationFrame(id)
oneShotDisposeFn(t) ==
    IF t.id THEN [t EXCEPT !.cancels = @ + 1, !.pending = FALSE] ELSE t

\* [Symbol.dispose]() of the one-shot's Disposable
oneShotDispose(t) ==
    IF ~t.disposed THEN oneShotDisposeFn([t EXCEPT !.disposed = TRUE]) ELSE t

\* user code (at top level or inside fn) releases the one-shot's Disposable
oneShotRelease ==
    /\ timer.made
    /\ stack = <<>>
    /\ timer.releases < MaxReleases
    /\ timer' = [oneShotDispose(timer) EXCEPT !.releases = @ + 1]
    /\ UNCHANGED <<target, el, dac>>
    /\ UNCHANGED sdVars
    /\ UNCHANGED ctxVars

hostFire_keepsId ==
    /\ timer.pending
    /\ stack = <<>>
    /\ ~timer.firing
    /\ timer' = [oneShotDispose([timer EXCEPT !.fired = TRUE])
                    EXCEPT !.pending = FALSE, !.firing = TRUE, !.ran = @ + 1,
                           !.entry = disposables # {}]
    /\ UNCHANGED <<target, el, dac>>
    /\ UNCHANGED sdVars
    /\ UNCHANGED ctxVars

hostFire_noSelfRelease ==
    /\ timer.pending
    /\ stack = <<>>
    /\ ~timer.firing
    /\ timer' = [timer EXCEPT !.id = FALSE, !.pending = FALSE, !.fired = TRUE,
                              !.firing = TRUE, !.ran = @ + 1,
                              !.entry = disposables # {}]
    /\ UNCHANGED <<target, el, dac>>
    /\ UNCHANGED sdVars
    /\ UNCHANGED ctxVars

\* the host calls the wrapper's callback, when no other code is running:
\* id = null; disposable[Symbol.dispose](); fn() -- up to the start of fn
hostFire ==
    /\ timer.pending
    /\ stack = <<>>
    /\ ~timer.firing
    /\ timer' = [oneShotDispose([timer EXCEPT !.id = FALSE, !.pending = FALSE,
                                              !.fired = TRUE])
                    EXCEPT !.firing = TRUE, !.ran = @ + 1, !.entry = disposables # {}]
    /\ UNCHANGED <<target, el, dac>>
    /\ UNCHANGED sdVars
    /\ UNCHANGED ctxVars

\* the user callback fn returns or throws; the host is its caller
fnReturn ==
    /\ timer.firing
    /\ stack = <<>>
    /\ timer' = [timer EXCEPT !.firing = FALSE]
    /\ UNCHANGED <<target, el, dac>>
    /\ UNCHANGED sdVars
    /\ UNCHANGED ctxVars

\* user code registers the one-shot's Disposable in a context that has no entry
\* yet: context.use(disposable)
useOneShot ==
    /\ timer.made
    /\ stack = <<>>
    /\ entries = <<>>
    /\ contextUse("disposable")
    /\ UNCHANGED hostVars
    /\ UNCHANGED sdVars
    /\ UNCHANGED <<kind, context, stack, old>>

\* user code releases the handle use() returned for the one-shot
releaseOneShotEntry ==
    /\ stack = <<>>
    /\ entries # <<>>
    /\ release(1)

\* user code calls dispose() of the context the one-shot may be registered in
disposeOneShotContext ==
    /\ stack = <<>>
    /\ dispose

\* the cleanup of the one-shot's entry is the bound [Symbol.dispose] of the
\* one-shot's Disposable: it runs and returns to wrappedDisposable
oneShotCleanup ==
    /\ stack # <<>>
    /\ Top.k = "cleanup"
    /\ timer' = oneShotDispose(timer)
    /\ entries' = [entries EXCEPT ![Top.e].disposables = FALSE]
    /\ stack' = Pop
    /\ last' = Step("cleanup", Top.e, entries[Top.e].value, "returned", "none", {}, 0)
    /\ UNCHANGED <<target, el, dac>>
    /\ UNCHANGED sdVars
    /\ UNCHANGED <<kind, disposables, context, old>>

\* The reasons abort() is called with; [Symbol.dispose]() passes "disposed".
Reasons == {"reason", "undefined", "disposed"}

\* the reason an AbortSignal reports: an AbortError when none was given
reasonOf(r) == IF r = "undefined" THEN "AbortError" ELSE r

\* the signal of a new AbortController
Fresh == [aborted |-> FALSE, reason |-> "undefined"]

\* dac.signals     the signals of the AbortControllers created so far
\* dac.controller  this.#controller: the one whose signal the getter exposes
\* dac.running     the abort() calls whose this.#controller.abort(reason) is
\*                 dispatching the abort event (user listeners are running)
\* dac.calls       how often abort() has been entered
\* dac.op, dac.reason  the last call and its argument
NoDac ==
    [signals |-> <<Fresh>>, controller |-> 1, running |-> 0, calls |-> 0,
     op |-> "init", reason |-> "undefined"]

\* abort(reason) entered by op ("abort" or "Symbol.dispose"), from top level or
\* from a running abort listener.  AbortController.abort() on a signal that is
\* already aborted does nothing; otherwise it sets the reason and dispatches the
\* abort event before it returns.
controllerAbort(op, r) ==
    /\ Len(dac.signals) + dac.running < MaxSignals
    /\ IF ~dac.signals[dac.controller].aborted
       THEN dac' = [dac EXCEPT !.signals[dac.controller] =
                                    [aborted |-> TRUE, reason |-> reasonOf(r)],
                               !.running = @ + 1,
                               !.calls = @ + 1,
                               !.op = op,
                               !.reason = r]
       ELSE dac' = [dac EXCEPT !.signals = Append(@, Fresh),
                               !.controller = Len(dac.signals) + 1,
                               !.calls = @ + 1,
                               !.op = op,
                               !.reason = r]
    /\ UNCHANGED <<target, el, timer>>
    /\ UNCHANGED sdVars
    /\ UNCHANGED ctxVars

\* DisposableAbortController.abort(reason)
abort(r) == controllerAbort("abort", r)

\* DisposableAbortController[Symbol.dispose]()
abortDispose == controllerAbort("Symbol.dispose", "disposed")

abortEnd_keepsController ==
    /\ dac.running > 0
    /\ dac' = [dac EXCEPT !.running = @ - 1, !.op = "return"]
    /\ UNCHANGED <<target, el, timer>>
    /\ UNCHANGED sdVars
    /\ UNCHANGED ctxVars

\* the abort listeners have run, this.#controller.abort(reason) returns:
\* this.#controller = new AbortController()
abortEnd ==
    /\ dac.running > 0
    /\ dac' = [dac EXCEPT !.signals = Append(@, Fresh),
                          !.controller = Len(dac.signals) + 1,
                          !.running = @ - 1,
                          !.op = "return"]
    /\ UNCHANGED <<target, el, timer>>
    /\ UNCHANGED sdVars
    /\ UNCHANGED ctxVars

hostInit ==
    /\ target = {}
    /\ el = NoEl
    /\ timer = NoTimer
    /\ dac = NoDac

\* a DisposableContext, with user code calling into it
Next ==
    \/ \E v \in UsedValues : use(v)
    \/ dispose
    \/ \E e \in Entries : release(e)
    \/ disposeNext
    \/ disposeEnd
    \/ cleanupReturn
    \/ cleanupThrow

\* an AutoDisposable owner, with user code calling into it
NextOwner ==
    \/ \E v \in UsedValues : ownerUse(v)
    \/ teardown
    \/ teardownEnd
    \/ \E e \in Entries : release(e)
    \/ disposeNext
    \/ disposeEnd
    \/ cleanupReturn
    \/ cleanupThrow

\* the standalone adapter, and the first use() of a context, with every value
NextAdapter ==
    \/ \E v \in Values : toDisposable(v)
    \/ sdDispose
    \/ sdCleanupReturn
    \/ sdCleanupThrow
    \/ \E v \in Values : firstUse(v)
    \/ \E e \in Entries : release(e)
    \/ cleanupReturn

Init == sdInit /\ hostInit /\ ctxInit("DisposableContext")

InitOwner == sdInit /\ hostInit /\ ctxInit("AutoDisposable")


Spec == Init /\ [][Next]_vars


SpecOwner == InitOwner /\ [][NextOwner]_vars

SpecAdapter == Init /\ [][NextAdapter]_vars

\* eventListener() on one EventTarget, and the release of what it returned
NextListener ==
    \/ \E t \in Types, c \in Callbacks, o \in Options : eventListener(t, c, o)
    \/ listenerDispose

SpecListener == Init /\ [][NextListener]_vars

\* one timeout() or animationFrame(), released directly or through a context
NextOneShot ==
    \/ timeout
    \/ animationFrame
    \/ oneShotRelease
    \/ hostFire
    \/ fnReturn
    \/ useOneShot
    \/ releaseOneShotEntry
    \/ disposeOneShotContext
    \/ disposeNext
    \/ disposeEnd
    \/ oneShotCleanup

SpecOneShot == Init /\ [][NextOneShot]_vars

\* one DisposableAbortController, as abortController() returns it
NextAbort ==
    \/ \E r \in Reasons \ {"disposed"} : abort(r)
    \/ abortDispose
    \/ abortEnd

SpecAbort == Init /\ [][NextAbort]_vars

-----------------------------------------------------------------------------
(* Properties.                                                             *)

\* a call of dispose() has just returned
DisposeReturned == last.op = "dispose" /\ last.out = "returned"

\* the loop of a dispose() call has just ended: the call returned, or raised
\* its assertion
DisposeOver == last.op = "dispose" /\ last.out \in {"returned", DisposeAssertion}

\* C1: when a call of dispose() returns, the cleanup of every entry that was
\* in the Set when it was called (every registered entry, when none was released
\* through its handle) has been invoked exactly once, and the Set is empty.
C1_AggregateCompleteness ==
    DisposeReturned =>
        /\ disposables = {}
        /\ \A e \in last.start : entries[e].invoked = 1

\* two entries registered, none released through its handle, then one
\* dispose() that has returned
C1_Witness ==
    /\ DisposeReturned
    /\ stack = <<>>
    /\ last.start = Entries
    /\ Len(entries) >= 2
    /\ \A e \in Entries : entries[e].by = "visit" /\ ~entries[e].during

C2_Released(e) == e \notin disposables

C2_Step ==
    /\ \A e \in Entries : C2_Released(e) => e \in Entries' /\ C2_Released(e)'
    /\ \A e \in Entries :
          (last'.op = "release" /\ last'.e = e /\ C2_Released(e)) =>
              /\ last'.out = "returned"
              /\ disposables' = disposables
              /\ stack' = stack
              /\ \A f \in Entries : entries'[f].invoked = entries[f].invoked

\* C2: in every sequence of use(), handle releases and dispose() calls, also
\* reentrant ones, no entry's cleanup is invoked more than once; an entry that
\* has left the Set never returns to it, and releasing its handle again
\* invokes nothing and leaves the Set, the stack and every count as they were.
C2_AtMostOnce ==
    /\ [](\A e \in Entries : entries[e].invoked <= 1)
    /\ [](\A e \in Entries : C2_Released(e) <=> entries[e].invoked = 1)
    /\ [][C2_Step]_vars

\* inside a running cleanup, the handle of an entry that a dispose() pass
\* released is released again
C2_Witness ==
    /\ last.op = "release"
    /\ last.out = "returned"
    /\ stack # <<>>
    /\ entries[last.e].by = "visit"
    /\ entries[last.e].invoked = 1

\* C3: a dispose() call that directly follows a dispose() call invokes no
\* cleanup, raises nothing and leaves the Set empty.
C3_RepeatedDispose ==
    [][(last.op = "dispose" /\ last.out # "called" /\ last'.op = "dispose") =>
          /\ last'.out = "returned"
          /\ entries' = entries
          /\ disposables = {}
          /\ disposables' = {}
          /\ stack' = stack]_vars

\* a dispose() that released two entries has returned and dispose() was
\* called again
C3_Witness ==
    /\ DisposeReturned
    /\ last.again
    /\ stack = <<>>
    /\ Len(entries) >= 2
    /\ \A e \in Entries : entries[e].by = "visit"

C4_Step ==
    /\ (DisposeReturned /\ last'.op = "use" /\ extractDisposeFn(last'.value).ok) =>
          /\ last'.out = "returned"
          /\ last'.ret = "wrappedDisposable"
          /\ last'.e \notin old
          /\ disposables' = {last'.e}
    /\ (last'.op = "visit" /\ last'.out = "invoked") =>
          /\ last'.e \notin old
          /\ entries[last'.e].invoked = 0
          /\ \A f \in Entries \ {last'.e} : entries'[f].invoked = entries[f].invoked
    /\ DisposeReturned' =>
          /\ \A e \in Entries \ old : entries'[e].invoked = 1
          /\ \A e \in old : entries'[e].invoked = entries[e].invoked

\* C4: after a dispose() that returned, use() still registers; a later
\* dispose() pass invokes only entries registered since the last dispose()
\* that returned, each of them has been invoked exactly once when it returns,
\* and no entry released earlier is invoked again.
C4_Reuse == [][C4_Step]_vars

\* a dispose() released an entry and returned; a second dispose() is now
\* running the cleanup of an entry registered after that
C4_Witness ==
    /\ last.op = "visit"
    /\ last.out = "invoked"
    /\ Len(stack) = 2
    /\ old # {}
    /\ \E e \in old : entries[e].by = "visit"
    /\ last.e \notin old
    /\ ~entries[last.e].during

C5_Step ==
    /\ \A e \in Entries :
          (last'.op = "release" /\ last'.e = e /\ e \in disposables) =>
              /\ disposables' = disposables \ {e}
              /\ entries[e].invoked = 0
              /\ entries'[e].invoked = 1
              /\ \A f \in Entries \ {e} : entries'[f].invoked = entries[f].invoked
    /\ (last'.op = "visit" /\ last'.out = "invoked") =>
          entries[last'.e].by = "none"

\* C5: releasing the handle of an entry in the Set removes exactly that entry
\* and invokes its cleanup once, leaving every other entry in the Set and
\* not invoked; a later dispose() visits no entry released through its handle,
\* and when it returns every entry that was still in the Set has been invoked
\* once.
C5_EarlyRelease ==
    /\ [][C5_Step]_vars
    /\ [](DisposeReturned =>
            /\ \A e \in Entries : entries[e].by = "release" => entries[e].invoked = 1
            /\ \A e \in last.start : entries[e].invoked = 1)

\* one entry was released through its handle at top level, then dispose()
\* released the other one and returned
C5_Witness ==
    /\ DisposeReturned
    /\ stack = <<>>
    /\ \E e \in Entries : entries[e].by = "release" /\ e \notin last.start
                          /\ e <= last.len
    /\ \E e \in last.start : entries[e].by = "visit"

\* the invocations of the underlying cleanup made through the standalone object
sdInvocations ==
    sd.invoked["call"] + sd.invoked["Symbol.dispose"] + sd.invoked["unsubscribe"]

\* C6: however often the object returned by toDisposable() has been
\* released (once or more), the underlying cleanup has been invoked exactly
\* once, also when that invocation threw or released the object again.
C6_StandaloneIdempotence ==
    (sd.made /\ sd.releases >= 1) =>
        /\ sdInvocations = 1
        /\ sd.invoked[sd.disposeFn] = 1

\* the first release threw, the object was released again while the cleanup
\* ran and again after it threw
C6_Witness ==
    /\ sd.made
    /\ sd.threw
    /\ sd.reentered
    /\ sd.running = 0
    /\ sd.releases = MaxReleases
    /\ sdLast.op = "dispose"
    /\ sdLast.out = "returned"

\* C7 as claimed: a dispose() pass in flight does not visit an entry that
\* was registered after the pass began.
C7_NotVisited ==
    \A i \in 1 .. Len(stack) :
        stack[i].k = "dispose" => stack[i].pos <= stack[i].len

C7_Step ==
    (InPass /\ last'.op = "use" /\ extractDisposeFn(last'.value).ok) =>
        /\ last'.out = "returned"
        /\ disposables' = disposables \cup {last'.e}
        /\ last'.e \notin disposables

\* C7, amended: use() inside an in-progress dispose() pass is accepted, and
\* the new entry is released by the time the loop of that pass is over: it is
\* out of the Set and its cleanup has been invoked exactly once.
C7_VisitedInFlight ==
    /\ [][C7_Step]_vars
    /\ [](DisposeOver =>
            \A e \in Entries : e > last.len =>
                e \notin disposables /\ entries[e].invoked = 1)

\* a pass has returned that visited an entry registered while it was running
C7_Witness ==
    /\ DisposeReturned
    /\ \E e \in Entries : /\ e > last.len
                          /\ entries[e].during
                          /\ entries[e].by = "visit"

\* C8: use(null) returns null and use(undefined) returns undefined; the
\* Set, the entries and the stack are left as they were.
C8_Passthrough ==
    [][(last'.op = "use" /\ last'.value \in {"null", "undefined"}) =>
          /\ last'.out = "returned"
          /\ last'.ret = last'.value
          /\ disposables' = disposables
          /\ entries' = entries
          /\ stack' = stack]_vars

\* use(null) has returned null on a context that holds an entry
C8_Witness ==
    /\ last.op = "use"
    /\ last.value = "null"
    /\ last.ret = "null"
    /\ disposables # {}

\* what C9 says a release invokes, "none" for every other value
C9_Method(v) ==
    IF v \in {"function", "functionWithDispose"} THEN "call"
    ELSE IF v \in {"disposable", "both"} THEN "Symbol.dispose"
    ELSE IF v \in {"unsubscribable", "disposeNotCallable"} THEN "unsubscribe"
    ELSE "none"

C9_Dispatch ==
    /\ sd.made =>
          /\ sd.disposeFn = C9_Method(sd.value)
          /\ \A m \in Methods \ {sd.disposeFn} : sd.invoked[m] = 0
    /\ \A e \in Entries : entries[e].dispose = C9_Method(entries[e].value)
    /\ (sdLast.op = "toDisposable" /\ C9_Method(sdLast.value) # "none") =>
          sdLast.out = "returned"
    /\ (last.op = "use" /\ C9_Method(last.value) # "none") =>
          last.out = "returned" /\ last.ret = "wrappedDisposable"

\* C9 as claimed: the dispatch order, and every other value makes
\* toDisposable() and use() fail with the conversion error.
C9_EveryOtherValueFails ==
    /\ C9_Dispatch
    /\ (sdLast.op = "toDisposable" /\ C9_Method(sdLast.value) = "none") =>
          sdLast.out = ConvertError
    /\ (last.op = "use" /\ C9_Method(last.value) = "none") =>
          last.out = ConvertError

\* C9, amended: the dispatch order; every other value except null and
\* undefined makes toDisposable() and use() fail with the conversion error;
\* use() returns null and undefined as they are, toDisposable(undefined) fails
\* with the conversion error and toDisposable(null) with a TypeError.
C9_AdaptationCoverage ==
    /\ C9_Dispatch
    /\ (sdLast.op = "toDisposable" /\ C9_Method(sdLast.value) = "none") =>
          sdLast.out = IF sdLast.value = "null" THEN "TypeError" ELSE ConvertError
    /\ (last.op = "use" /\ C9_Method(last.value) = "none") =>
          IF last.value \in {"null", "undefined"}
          THEN last.out = "returned" /\ last.ret = last.value
          ELSE last.out = ConvertError

\* an object with both methods was released through toDisposable() and
\* through use(), and the last toDisposable() was refused
C9_Witness ==
    /\ sd.made
    /\ sd.value = "both"
    /\ sd.invoked["Symbol.dispose"] = 1
    /\ sdLast.op = "toDisposable"
    /\ sdLast.value = "emptyObject"
    /\ sdLast.out = ConvertError
    /\ entries # <<>>
    /\ entries[1].value = "both"
    /\ entries[1].invoked = 1

\* C10: once the owner's teardown has completed, the owner's context stays
\* undefined and every use(), whatever its argument, fails with the usage
\* assertion and registers nothing.
C10_UseAfterTeardown ==
    [][~context =>
          /\ ~context'
          /\ last'.op = "use" =>
                /\ last'.out = UseAssertion
                /\ entries' = entries
                /\ disposables' = disposables
                /\ stack' = stack]_vars

\* use(null) was refused on an owner that had released an entry in its
\* teardown
C10_Witness ==
    /\ kind = "AutoDisposable"
    /\ ~context
    /\ entries # <<>>
    /\ last.op = "use"
    /\ last.value = "null"
    /\ last.out = UseAssertion

C11_Step ==
    /\ (last'.op = "teardown" /\ ~InUser) => ~context'
    /\ ~context =>
          /\ ~context'
          /\ disposables' = disposables
          /\ \A e \in Entries :
                e \in Entries' /\ entries'[e].invoked = entries[e].invoked
          /\ (last'.op = "teardown" /\ InUser) =>
                /\ last'.out = "returned"
                /\ entries' = entries
                /\ stack' = stack

\* C11: when a teardown of an owner completes, the owner's context reference
\* is cleared; once it is cleared the Set is empty and the cleanup of every
\* entry registered through the owner has been invoked exactly once; from then
\* on the reference stays cleared, no cleanup is invoked, and every further
\* teardown call returns at once and changes nothing.
C11_OwnerTeardownOnce ==
    /\ [](~context => disposables = {} /\ \A e \in Entries : entries[e].invoked = 1)
    /\ [][C11_Step]_vars

\* an owner with two entries was torn down, its pass released both, and it
\* was then torn down again
C11_Witness ==
    /\ kind = "AutoDisposable"
    /\ ~context
    /\ stack = <<>>
    /\ last.op = "teardown"
    /\ last.again
    /\ Len(entries) = 2
    /\ \A e \in Entries : entries[e].by = "visit" /\ entries[e].invoked = 1

\* C12: the first release of the Disposable returned by eventListener() removes
\* from the target exactly the listener the call attached -- the one with the
\* call's type and callback and the capture flag of the call's options -- for
\* every options value, capture: true included.
C12_ListenerReleased ==
    [][(el.made /\ ~el.disposed /\ el'.disposed) =>
          target' = removeEventListener(el.type, el.callback, el.options)]_vars

C13_Step ==
    /\ timer.fired => timer'.cancels = timer.cancels
    /\ (~timer.fired /\ timer'.fired) =>
          /\ timer'.cancels = timer.cancels
          /\ timer'.disposed
          /\ ~timer'.id
          /\ timer'.ran = timer.ran + 1
    /\ (~timer.disposed /\ timer'.disposed /\ ~timer'.fired) =>
          /\ timer'.cancels = timer.cancels + 1
          /\ ~timer'.pending

\* C13: the user callback of a timeout() or animationFrame() runs at most once;
\* a release before the host fires makes the one host cancel call, after which
\* nothing is pending and the callback never runs; when the host fires, the
\* Disposable is marked released and the id cleared before the callback starts,
\* without a host cancel call; and from the firing on no release, from inside
\* the callback or after it, makes a host cancel call.
C13_OneShotOrdering ==
    /\ [](timer.ran <= 1)
    /\ []((timer.disposed /\ ~timer.fired) =>
              ~timer.pending /\ timer.ran = 0 /\ timer.cancels = 1)
    /\ [](timer.ran > 0 => timer.fired /\ timer.disposed)
    /\ [][C13_Step]_vars

\* an animationFrame() fired, its callback ran to its end, and the Disposable
\* was released twice during or after the firing; no host cancel call was made
C13_Witness ==
    /\ timer.api = "animationFrame"
    /\ timer.fired
    /\ ~timer.firing
    /\ timer.ran = 1
    /\ timer.releases = 2
    /\ timer.cancels = 0

\* C14 as stated: when the host callback of a one-shot fires while an entry made
\* from it is in a context's Set, the entry has left the Set after the firing.
C14_EntryLeavesOnFire ==
    [][(~timer.fired /\ timer'.fired /\ disposables # {}) => disposables' = {}]_vars

C14_Step ==
    /\ (~timer.fired /\ timer'.fired) =>
          /\ disposables' = disposables
          /\ entries' = entries
    /\ (timer.fired /\ stack # <<>> /\ Top.k = "cleanup") =>
          /\ timer' = timer
          /\ disposables' = disposables

\* C14: the firing of a one-shot marks its own Disposable released and clears
\* its id, and leaves the context alone: the entry made from it stays in the
\* Set until its handle or dispose() releases it; that release runs the
\* Disposable's [Symbol.dispose], which then changes nothing (no host cancel
\* call, no second run of the callback), and the entry's cleanup is invoked at
\* most once.
C14_OneShotEntryStays ==
    /\ [](timer.fired => timer.disposed /\ ~timer.id)
    /\ [](\A e \in Entries : entries[e].invoked <= 1)
    /\ [][C14_Step]_vars

\* a one-shot registered in a context has fired and its callback has returned;
\* its entry is still in the context's Set
C14_Witness ==
    /\ timer.entry
    /\ timer.ran = 1
    /\ ~timer.firing
    /\ entries # <<>>
    /\ 1 \in disposables

C15_EveryCallStep ==
    /\ dac'.calls > dac.calls =>
          /\ dac'.signals[dac.controller].aborted
          /\ dac'.signals[dac.controller].reason = reasonOf(dac'.reason)
          /\ dac'.op = "Symbol.dispose" => dac'.reason = "disposed"
    /\ \A i \in 1 .. Len(dac.signals) :
          dac.signals[i].aborted => dac'.signals[i] = dac.signals[i]

C15_Step ==
    /\ (dac'.calls > dac.calls /\ ~dac.signals[dac.controller].aborted) =>
          /\ dac'.signals[dac.controller].aborted
          /\ dac'.signals[dac.controller].reason = reasonOf(dac'.reason)
          /\ dac'.controller = dac.controller
    /\ (dac'.calls > dac.calls /\ dac.signals[dac.controller].aborted) =>
          /\ dac.running > 0
          /\ dac'.controller = Len(dac.signals) + 1
          /\ dac'.signals[dac'.controller] = Fresh
    /\ (dac'.calls > dac.calls /\ dac'.op = "Symbol.dispose") => dac'.reason = "disposed"
    /\ dac'.running < dac.running =>
          /\ dac'.controller = Len(dac.signals) + 1
          /\ dac'.signals[dac'.controller] = Fresh
    /\ \A i \in 1 .. Len(dac.signals) :
          dac.signals[i].aborted => dac'.signals[i] = dac.signals[i]

C16_AssertionUnreachable ==
    /\ last.out # DisposeAssertion
    /\ (stack # <<>> /\ Top.k = "dispose" /\ Ahead = {}) => disposables = {}

\* a dispose() call made from inside a running cleanup has returned, after a
\* pass in which a cleanup had registered an entry
C16_Witness ==
    /\ DisposeReturned
    /\ stack # <<>>
    /\ last.start # {}
    /\ \E e \in Entries : entries[e].during /\ entries[e].invoked = 1

C17_Step ==
    /\ last'.op = "visit" =>
          /\ last'.e \in disposables
          /\ entries[last'.e].invoked = 0
          /\ last'.out = "invoked"
    /\ \A e \in Entries :
          (last'.op = "release" /\ last'.e = e /\ e \notin disposables) =>
              /\ last'.out = "returned"
              /\ disposables' = disposables
              /\ \A i \in 1 .. Len(stack) : stack'[i] = stack[i]
              /\ Len(stack') = Len(stack)
              /\ \A f \in Entries : entries'[f].invoked = entries[f].invoked

\* C17: when a dispose() call that is not nested in another pass returns, every
\* entry that was in the Set when it started has had its cleanup invoked
\* exactly once, also when cleanups released handles of entries not yet visited
\* or called dispose() again; a pass only ever visits an entry that is still in
\* the Set and was never invoked, and releasing the handle of an entry that has
\* left the Set invokes nothing and changes neither the Set nor the stack.
C17_ReentrantRelease ==
    /\ []((DisposeReturned /\ ~InPass) =>
              \A e \in last.start : entries[e].invoked = 1)
    /\ [][C17_Step]_vars

\* a top-level dispose() of two entries has returned; the cleanup of the
\* first, run by the pass, had released the handle of the second
C17_Witness ==
    /\ DisposeReturned
    /\ stack = <<>>
    /\ last.start = {1, 2}
    /\ entries[1].by = "visit"
    /\ entries[2].by = "release"
    /\ entries[2].invoked = 1

C18_Step ==
    (last'.op = "cleanup" /\ last'.out = "CleanupError") =>
        /\ InUser'
        /\ Len(stack') < Len(stack)
        /\ \A i \in 1 .. Len(stack') : stack'[i] = stack[i]
        /\ last'.e \notin disposables'
        /\ entries'[last'.e].invoked = 1
        /\ disposables' = disposables
        /\ entries' = entries

\* C18: when a cleanup throws, no frame of the library catches the error:
\* control is back in user code (the caller of dispose() or of the handle), the
\* thrower is out of the Set with its cleanup invoked once, and the Set and every
\* entry are as they were; an entry still in the Set has never been invoked and
\* its handle is intact, so the next dispose() or its handle releases it, and no
\* cleanup is ever invoked twice.
C18_CleanupFailure ==
    /\ [](\A e \in Entries : entries[e].invoked <= 1)
    /\ [](\A e \in disposables : entries[e].invoked = 0 /\ entries[e].disposables)
    /\ [][C18_Step]_vars

\* the cleanup of an entry visited by a top-level dispose() threw while
\* another entry was still registered
C18_Witness ==
    /\ last.op = "cleanup"
    /\ last.out = "CleanupError"
    /\ stack = <<>>
    /\ entries[last.e].by = "visit"
    /\ disposables # {}

\* C19: a use() that ends with the adaptation error (or a TypeError of the
\* probe) leaves the entries, the Set, the stack and the record of the last
\* completed dispose() exactly as they were: nothing is added and no cleanup
\* is invoked.
C19_FailedRegistration ==
    [][(last'.op = "use" /\ last'.out \in {ConvertError, "TypeError"}) =>
          /\ entries' = entries
          /\ disposables' = disposables
          /\ stack' = stack
          /\ old' = old]_vars

\* use({}) was refused by a context that holds an entry
C19_Witness ==
    /\ last.op = "use"
    /\ last.value = "emptyObject"
    /\ last.out = ConvertError
    /\ disposables # {}

\* the entries registered from the value v
C20_SameSource(v) == {e \in Entries : entries[e].value = v}

\* the number of invocations of the cleanup of the value v, over all its entries
C20_Invocations(v) ==
    Cardinality({p \in Entries \X (1 .. MaxEntries + 1) :
                    entries[p[1]].value = v /\ p[2] <= entries[p[1]].invoked})

C20_Step ==
    /\ (last'.op = "use" /\ last'.ret = "wrappedDisposable") =>
          /\ Len(entries') = Len(entries) + 1
          /\ last'.e = Len(entries')
          /\ last'.e \notin disposables
          /\ disposables' = disposables \cup {last'.e}
    /\ (last'.op \in {"release", "visit"} /\ last'.out = "invoked") =>
          /\ disposables' = disposables \ {last'.e}
          /\ \A f \in Entries \ {last'.e} : entries'[f] = entries[f]

\* C20: every successful use() adds one new entry to the Set, also when an
\* entry made from the same value is already in it; a release removes only the
\* entry released and touches no other entry; and whenever the Set is empty the
\* cleanup of each value has been invoked once per entry registered from it.
C20_DistinctEntries ==
    /\ [](disposables = {} =>
              \A v \in UsedValues : C20_Invocations(v) = Cardinality(C20_SameSource(v)))
    /\ [][C20_Step]_vars

\* the same function was registered twice; one entry was released through
\* its handle and the other by dispose(), each invoking the function once
C20_Witness ==
    /\ disposables = {}
    /\ Len(entries) = 2
    /\ entries[1].value = "function"
    /\ entries[2].value = "function"
    /\ entries[1].by = "release"
    /\ entries[2].by = "visit"
    /\ C20_Invocations("function") = 2

====
